---- MODULE Spec2Model ----
(***************************************************************************)
(* libdns-immosquare: the provider's four operations (GetRecords,          *)
(* AppendRecords, SetRecords, DeleteRecords) over an HTTP API, and the     *)
(* record conversions they rest on (convertAPIRecordToLibDNS,              *)
(* convertToSpecificTypes, parseUint16).                                   *)
(*                                                                         *)
(* Strings whose content the code inspects (record data, MX targets, IP    *)
(* text) are sequences of one-character strings; names and type tags are   *)
(* opaque strings.  Durations are counted in model ticks, Second ticks to  *)
(* the second.                                                             *)
(***************************************************************************)
EXTENDS Integers, Sequences, FiniteSets, TLC

VARIABLES APIToken, Endpoint, client, call, wire, parses, result, src, dec, ret

vars == <<APIToken, Endpoint, client, call, wire, parses, result, src, dec, ret>>

-----------------------------------------------------------------------------
(* Bounds *)

\* longest record batch handed to an operation or carried by a response
MaxBatch == 2
\* longest data string enumerated over Alphabet
MaxLen == 4

-----------------------------------------------------------------------------
(* Time *)

\* time.Second, in model ticks (one tick stands for a millisecond)
Second == 1000

defaultMinTTL == 120 * Second

\* int(d.Seconds()): the duration in seconds, the fraction cut toward zero
Seconds(d) == IF d >= 0 THEN d \div Second ELSE -((-d) \div Second)

-----------------------------------------------------------------------------
(* Strings *)

Digit == {"0", "1", "2", "3", "4", "5", "6", "7", "8", "9"}

DigitVal(c) ==
  CASE c = "0" -> 0 [] c = "1" -> 1 [] c = "2" -> 2 [] c = "3" -> 3
    [] c = "4" -> 4 [] c = "5" -> 5 [] c = "6" -> 6 [] c = "7" -> 7
    [] c = "8" -> 8 [] c = "9" -> 9

DigitChar(d) ==
  CASE d = 0 -> "0" [] d = 1 -> "1" [] d = 2 -> "2" [] d = 3 -> "3"
    [] d = 4 -> "4" [] d = 5 -> "5" [] d = 6 -> "6" [] d = 7 -> "7"
    [] d = 8 -> "8" [] d = 9 -> "9"

\* unicode.IsSpace, on the characters of the model
IsSpace(c) == c \in {" ", "\t"}

\* strings.Fields: the maximal runs of non-space characters, in order
RECURSIVE FieldsFrom(_, _, _, _)
FieldsFrom(s, i, cur, acc) ==
  IF i > Len(s)
  THEN IF cur = <<>> THEN acc ELSE Append(acc, cur)
  ELSE IF IsSpace(s[i])
       THEN FieldsFrom(s, i + 1, <<>>, IF cur = <<>> THEN acc ELSE Append(acc, cur))
       ELSE FieldsFrom(s, i + 1, Append(cur, s[i]), acc)

Fields(s) == FieldsFrom(s, 1, <<>>, <<>>)

\* strings.Join(parts, " ")
RECURSIVE JoinSpace(_)
JoinSpace(parts) ==
  IF Len(parts) = 0 THEN <<>>
  ELSE IF Len(parts) = 1 THEN parts[1]
  ELSE parts[1] \o <<" ">> \o JoinSpace(Tail(parts))

\* fmt's %d for an unsigned value: the decimal digits of n
RECURSIVE FormatUint(_)
FormatUint(n) ==
  IF n < 10 THEN <<DigitChar(n)>>
  ELSE Append(FormatUint(n \div 10), DigitChar(n % 10))

\* strings.ToUpper on the type tags of the model
ToUpper(t) ==
  CASE t = "a" -> "A"
    [] t = "aaaa" -> "AAAA"
    [] t = "txt" -> "TXT"
    [] t = "mx" -> "MX"
    [] OTHER -> t

-----------------------------------------------------------------------------
(* parseUint16: fmt.Sscanf(s, "%d", &result) with result a uint16 *)

MaxUint16 == 65535

\* the characters Sscanf's %d accepts into the number token
ScanDigit == Digit \cup {"_"}

\* length of the longest prefix of s made of accepted characters
RECURSIVE ScanLen(_, _)
ScanLen(s, i) ==
  IF i <= Len(s) /\ s[i] \in ScanDigit THEN ScanLen(s, i + 1) ELSE i - 1

\* value of a digit string, saturating just above the uint16 range
RECURSIVE DecValue(_, _)
DecValue(tok, acc) ==
  IF tok = <<>> THEN acc
  ELSE LET v == acc * 10 + DigitVal(Head(tok))
       IN  DecValue(Tail(tok), IF v > MaxUint16 THEN MaxUint16 + 1 ELSE v)

\* Sscanf scans the longest prefix of accepted characters (none: "expected
\* integer"), hands it to strconv.ParseUint in base 10 (an underscore is a
\* syntax error there), rejects a value that does not fit 16 bits, and leaves
\* whatever follows the prefix unread without an error.
parseUint16(s) ==
  LET n == ScanLen(s, 1)
      tok == SubSeq(s, 1, n)
  IN  IF n = 0 THEN [ok |-> FALSE, val |-> 0]
      ELSE IF \E i \in 1..n : tok[i] = "_" THEN [ok |-> FALSE, val |-> 0]
      ELSE IF DecValue(tok, 0) > MaxUint16 THEN [ok |-> FALSE, val |-> 0]
      ELSE [ok |-> TRUE, val |-> DecValue(tok, 0)]

-----------------------------------------------------------------------------
(* netip: the addresses of the model and their text *)

IPv4Text == <<"1", ".", "2", ".", "3", ".", "4">>
IPv6Text == <<":", ":", "1">>
\* the same IPv6 address, not in canonical form
IPv6LongText == <<"0", ":", "0", ":", "0", ":", "0", ":", "0", ":", "0", ":", "0", ":", "1">>

IPv4Addr == [fam |-> 4, id |-> "1.2.3.4"]
IPv6Addr == [fam |-> 6, id |-> "::1"]
NoAddr == [fam |-> 0, id |-> ""]

\* netip.ParseAddr: every string of the model other than the three texts
\* above holds neither a '.' nor a ':' in a valid place and is rejected
ParseAddr(s) ==
  IF s = IPv4Text THEN [ok |-> TRUE, ip |-> IPv4Addr]
  ELSE IF s = IPv6Text \/ s = IPv6LongText THEN [ok |-> TRUE, ip |-> IPv6Addr]
  ELSE [ok |-> FALSE, ip |-> NoAddr]

\* netip.Addr.String: the canonical text
IPString(ip) == IF ip.fam = 4 THEN IPv4Text ELSE IPv6Text

-----------------------------------------------------------------------------
(* libdns records: the typed variants and their RR() projection *)

Address(name, ttl, ip) == [kind |-> "Address", Name |-> name, TTL |-> ttl, IP |-> ip]
TXT(name, ttl, text) == [kind |-> "TXT", Name |-> name, TTL |-> ttl, Text |-> text]
CNAME(name, ttl, target) == [kind |-> "CNAME", Name |-> name, TTL |-> ttl, Target |-> target]
MX(name, ttl, preference, target) ==
  [kind |-> "MX", Name |-> name, TTL |-> ttl, Preference |-> preference, Target |-> target]
NS(name, ttl, target) == [kind |-> "NS", Name |-> name, TTL |-> ttl, Target |-> target]
Generic(name, ttl, type, data) ==
  [kind |-> "RR", Name |-> name, TTL |-> ttl, Type |-> type, Data |-> data]

\* record.RR(): the name/type/data/ttl projection of a record.  An Address
\* takes its tag from the family of its IP and its data from the canonical
\* text; an MX encodes "<preference> <target>".
RR(rec) ==
  CASE rec.kind = "Address" ->
         Generic(rec.Name, rec.TTL, IF rec.IP.fam = 6 THEN "AAAA" ELSE "A", IPString(rec.IP))
    [] rec.kind = "TXT" -> Generic(rec.Name, rec.TTL, "TXT", rec.Text)
    [] rec.kind = "CNAME" -> Generic(rec.Name, rec.TTL, "CNAME", rec.Target)
    [] rec.kind = "MX" ->
         Generic(rec.Name, rec.TTL, "MX", FormatUint(rec.Preference) \o <<" ">> \o rec.Target)
    [] rec.kind = "NS" -> Generic(rec.Name, rec.TTL, "NS", rec.Target)
    [] rec.kind = "RR" -> rec

-----------------------------------------------------------------------------
(* convertAPIRecordToLibDNS: one record of a GET response to a typed record *)

\* var preference uint16 = 10
DefaultPreference == 10

NoRecord == Generic("", 0, "", <<>>)

\* the MX case of convertAPIRecordToLibDNS
decodeMX(value) ==
  LET parts == Fields(value)
  IN  IF Len(parts) >= 2
      THEN LET pref == parseUint16(parts[1])
           IN  IF pref.ok
               THEN [preference |-> pref.val, target |-> JoinSpace(Tail(parts))]
               ELSE [preference |-> DefaultPreference, target |-> value]
      ELSE [preference |-> DefaultPreference, target |-> value]

\* apiRecord is [name, type, value, ttl], ttl in seconds
convertAPIRecordToLibDNS(apiRecord) ==
  LET ttl == apiRecord.ttl * Second
      up == ToUpper(apiRecord.type)
  IN  IF up \in {"A", "AAAA"}
      THEN LET a == ParseAddr(apiRecord.value)
           IN  IF ~a.ok THEN [ok |-> FALSE, rec |-> NoRecord]
               ELSE [ok |-> TRUE, rec |-> Address(apiRecord.name, ttl, a.ip)]
      ELSE IF up = "TXT" THEN [ok |-> TRUE, rec |-> TXT(apiRecord.name, ttl, apiRecord.value)]
      ELSE IF up = "CNAME" THEN [ok |-> TRUE, rec |-> CNAME(apiRecord.name, ttl, apiRecord.value)]
      ELSE IF up = "MX"
      THEN LET mx == decodeMX(apiRecord.value)
           IN  [ok |-> TRUE, rec |-> MX(apiRecord.name, ttl, mx.preference, mx.target)]
      ELSE IF up = "NS" THEN [ok |-> TRUE, rec |-> NS(apiRecord.name, ttl, apiRecord.value)]
      ELSE [ok |-> TRUE, rec |-> Generic(apiRecord.name, ttl, apiRecord.type, apiRecord.value)]

-----------------------------------------------------------------------------
(* convertToSpecificTypes: the caller's records, re-typed after a write *)

\* the MX case of convertToSpecificTypes
retypeMX(data) ==
  LET parts == Fields(data)
  IN  IF Len(parts) >= 2
      THEN LET pref == parseUint16(parts[1])
           IN  IF pref.ok
               THEN [preference |-> pref.val, target |-> JoinSpace(Tail(parts))]
               ELSE [preference |-> DefaultPreference, target |-> data]
      ELSE [preference |-> DefaultPreference, target |-> data]

\* A mutant: an unparsable address drops the record instead of keeping the RR.
retypeOneStrict(rr) ==
  LET up == ToUpper(rr.Type)
  IN  IF up \in {"A", "AAAA"}
      THEN LET a == ParseAddr(rr.Data)
           IN  IF ~a.ok THEN <<>> ELSE <<Address(rr.Name, rr.TTL, a.ip)>>
      ELSE IF up = "TXT" THEN <<TXT(rr.Name, rr.TTL, rr.Data)>>
      ELSE IF up = "CNAME" THEN <<CNAME(rr.Name, rr.TTL, rr.Data)>>
      ELSE IF up = "MX"
      THEN LET mx == retypeMX(rr.Data)
           IN  <<MX(rr.Name, rr.TTL, mx.preference, mx.target)>>
      ELSE IF up = "NS" THEN <<NS(rr.Name, rr.TTL, rr.Data)>>
      ELSE <<rr>>

\* the body of the loop: what one record's RR appends to the result
retypeOne(rr) ==
  LET up == ToUpper(rr.Type)
  IN  IF up \in {"A", "AAAA"}
      THEN LET a == ParseAddr(rr.Data)
           IN  IF ~a.ok THEN <<rr>> ELSE <<Address(rr.Name, rr.TTL, a.ip)>>
      ELSE IF up = "TXT" THEN <<TXT(rr.Name, rr.TTL, rr.Data)>>
      ELSE IF up = "CNAME" THEN <<CNAME(rr.Name, rr.TTL, rr.Data)>>
      ELSE IF up = "MX"
      THEN LET mx == retypeMX(rr.Data)
           IN  <<MX(rr.Name, rr.TTL, mx.preference, mx.target)>>
      ELSE IF up = "NS" THEN <<NS(rr.Name, rr.TTL, rr.Data)>>
      ELSE <<rr>>

RECURSIVE convertToSpecificTypes(_)
convertToSpecificTypes(records) ==
  IF records = <<>> THEN <<>>
  ELSE retypeOne(RR(Head(records))) \o convertToSpecificTypes(Tail(records))

-----------------------------------------------------------------------------
(* Inputs of the operations *)

\* all sequences over S of length at most n
SeqsUpTo(S, n) == UNION {[1..k -> S] : k \in 0..n}

\* records a caller hands to AppendRecords, SetRecords or DeleteRecords
WritePool ==
  { TXT("_acme-challenge", 0, <<"x">>),
    Address("www", 300 * Second, IPv4Addr),
    MX("@", 120 * Second + 500, 10, <<"m">>),
    Generic("bad", -(Second + 500), "A", <<"x">>) }

Batches == SeqsUpTo(WritePool, MaxBatch)

\* records a server puts in a GET response: [name, type, value, ttl]
APIRecord(name, type, value, ttl) == [name |-> name, type |-> type, value |-> value, ttl |-> ttl]

ReadPool ==
  { APIRecord("a", "TXT", <<"x">>, 60),
    APIRecord("b", "A", <<"x">>, 300),
    APIRecord("c", "aaaa", <<"x">>, 300),
    APIRecord("d", "a", IPv4Text, 0) }

\* A response body: a JSON object whose "records" member is the list, a bare
\* JSON array of the list, the JSON null, or text that is not JSON.  typed is
\* whether every member of every record has the JSON type its field wants.
ResponseBody(shape, records, typed) == [shape |-> shape, records |-> records, typed |-> typed]

NoBody == ResponseBody("none", <<>>, TRUE)

Bodies ==
  {ResponseBody(sh, recs, TRUE) : sh \in {"object", "array"}, recs \in SeqsUpTo(ReadPool, MaxBatch)}
    \cup {ResponseBody(sh, <<APIRecord("a", "TXT", <<"x">>, 0)>>, FALSE) :
            sh \in {"object", "array"}}
    \cup {ResponseBody("null", <<>>, TRUE), ResponseBody("invalid", <<>>, TRUE)}

Statuses == {200, 201, 204, 500}

\* What the HTTP client gives back: a transport error, or a response.
Response(failed, status, body) == [failed |-> failed, status |-> status, body |-> body]

NoResponse == Response(FALSE, 0, NoBody)

WriteResponses == {Response(TRUE, 0, NoBody)} \cup {Response(FALSE, st, NoBody) : st \in Statuses}

GetResponses ==
  {Response(TRUE, 0, NoBody)}
    \cup {Response(FALSE, st, NoBody) : st \in Statuses \ {200}}
    \cup {Response(FALSE, 200, b) : b \in Bodies}

-----------------------------------------------------------------------------
(* makeRequest and initClient *)

\* the request handed to the HTTP client: records is the "records" member of
\* the JSON body, hasBody is whether there is a body at all (and with it the
\* Content-Type header), bearer is the token of the Authorization header,
\* "" for no such header
Request(method, hasBody, records, bearer) ==
  [method |-> method, hasBody |-> hasBody, records |-> records, bearer |-> bearer]

NoRequest == Request("", FALSE, <<>>, "")

\* initClient fails on an empty endpoint (after it has set the client); else
\* the request goes to client.Do, which fails or answers with resp.
makeRequest(method, hasBody, records, resp) ==
  IF Endpoint = ""
  THEN [err |-> "endpoint is required", sent |-> NoRequest, resp |-> NoResponse]
  ELSE IF resp.failed
  THEN [err |-> "transport", sent |-> Request(method, hasBody, records, APIToken), resp |-> resp]
  ELSE [err |-> "nil", sent |-> Request(method, hasBody, records, APIToken), resp |-> resp]

\* what an operation returns: the records and the error ("nil": none); status
\* is the HTTP status an "API error" carries, 0 otherwise
Ok(records) == [records |-> records, err |-> "nil", status |-> 0]
Fail(err, status) == [records |-> <<>>, err |-> err, status |-> status]

NoCall == [op |-> "", records |-> <<>>, resp |-> NoResponse]

\* The state after one call: the client is set once makeRequest has run.
Return(op, records, called, m, res, tried) ==
  /\ call' = [op |-> op, records |-> records, resp |-> m.resp]
  /\ client' = (client \/ called)
  /\ wire' = m.sent
  /\ parses' = tried
  /\ result' = res
  /\ UNCHANGED <<APIToken, Endpoint, src, dec, ret>>

NotCalled == [err |-> "nil", sent |-> NoRequest, resp |-> NoResponse]

-----------------------------------------------------------------------------
(* GetRecords *)

\* json.Unmarshal into the struct with a "records" field
UnmarshalObject(body) ==
  IF body.shape = "null" THEN [ok |-> TRUE, records |-> <<>>]
  ELSE IF body.shape = "object" /\ body.typed THEN [ok |-> TRUE, records |-> body.records]
  ELSE [ok |-> FALSE, records |-> <<>>]

\* json.Unmarshal into the slice of records
UnmarshalArray(body) ==
  IF body.shape = "null" THEN [ok |-> TRUE, records |-> <<>>]
  ELSE IF body.shape = "array" /\ body.typed THEN [ok |-> TRUE, records |-> body.records]
  ELSE [ok |-> FALSE, records |-> <<>>]

\* A mutant: a record that does not convert is skipped.
RECURSIVE convertRecordsLenient(_)
convertRecordsLenient(apiRecords) ==
  IF apiRecords = <<>> THEN Ok(<<>>)
  ELSE LET c == convertAPIRecordToLibDNS(Head(apiRecords))
           rest == convertRecordsLenient(Tail(apiRecords))
       IN  IF ~c.ok THEN rest ELSE Ok(<<c.rec>> \o rest.records)

\* the loop over the records of the "records" field: the first record that
\* does not convert ends the call with an error
RECURSIVE convertObjectRecords(_)
convertObjectRecords(apiRecords) ==
  IF apiRecords = <<>> THEN Ok(<<>>)
  ELSE LET c == convertAPIRecordToLibDNS(Head(apiRecords))
       IN  IF ~c.ok THEN Fail("record conversion error", 0)
           ELSE LET rest == convertObjectRecords(Tail(apiRecords))
                IN  IF rest.err # "nil" THEN rest ELSE Ok(<<c.rec>> \o rest.records)

\* the same loop, over the records of a bare array
RECURSIVE convertArrayRecords(_)
convertArrayRecords(apiRecords) ==
  IF apiRecords = <<>> THEN Ok(<<>>)
  ELSE LET c == convertAPIRecordToLibDNS(Head(apiRecords))
       IN  IF ~c.ok THEN Fail("record conversion error", 0)
           ELSE LET rest == convertArrayRecords(Tail(apiRecords))
                IN  IF rest.err # "nil" THEN rest ELSE Ok(<<c.rec>> \o rest.records)

\* the body of a 200 response to records: the result and the parses tried
decodeBody(body) ==
  LET o == UnmarshalObject(body)
  IN  IF ~o.ok
      THEN LET a == UnmarshalArray(body)
           IN  IF ~a.ok
               THEN [res |-> Fail("JSON decoding error", 0), tried |-> <<"object", "array">>]
               ELSE [res |-> convertArrayRecords(a.records), tried |-> <<"object", "array">>]
      ELSE [res |-> convertObjectRecords(o.records), tried |-> <<"object">>]

GetStatusOK(status) == status = 200

GetRecords ==
  \E resp \in GetResponses :
    LET m == makeRequest("GET", FALSE, <<>>, resp)
    IN  IF m.err # "nil" THEN Return("GetRecords", <<>>, TRUE, m, Fail(m.err, 0), <<>>)
        ELSE IF ~GetStatusOK(m.resp.status)
        THEN Return("GetRecords", <<>>, TRUE, m, Fail("API error", m.resp.status), <<>>)
        ELSE LET d == decodeBody(m.resp.body)
             IN  Return("GetRecords", <<>>, TRUE, m, d.res, d.tried)

-----------------------------------------------------------------------------
(* AppendRecords, SetRecords, DeleteRecords *)

\* one record of a write's JSON body: [name, type, data, ttl], ttl in seconds
WireRecord(name, type, data, ttl) == [name |-> name, type |-> type, data |-> data, ttl |-> ttl]

\* A mutant: the empty batch is not short-circuited.
EmptyBatchNever(records) == FALSE

\* if len(records) == 0 { return []libdns.Record{}, nil }
EmptyBatch(records) == Len(records) = 0

\* A mutant: the record is sent with its own ttl.
AppendAPIRecordNoFloor(record) ==
  LET rr == RR(record)
  IN  WireRecord(rr.Name, rr.Type, rr.Data, Seconds(rr.TTL))

\* the body of AppendRecords' loop: a ttl under defaultMinTTL is raised to it
AppendAPIRecord(record) ==
  LET rr == RR(record)
      ttl == IF rr.TTL < defaultMinTTL THEN defaultMinTTL ELSE rr.TTL
  IN  WireRecord(rr.Name, rr.Type, rr.Data, Seconds(ttl))

\* the body of SetRecords' loop
SetAPIRecord(record) ==
  LET rr == RR(record)
      ttl == IF rr.TTL < defaultMinTTL THEN defaultMinTTL ELSE rr.TTL
  IN  WireRecord(rr.Name, rr.Type, rr.Data, Seconds(ttl))

\* the body of DeleteRecords' loop: the ttl goes out as it is
DeleteAPIRecord(record) ==
  LET rr == RR(record)
  IN  WireRecord(rr.Name, rr.Type, rr.Data, Seconds(rr.TTL))

\* A mutant: only 201 Created counts.
AppendStatusOKCreatedOnly(status) == status = 201

AppendStatusOK(status) == status = 201 \/ status = 200

SetStatusOK(status) == status = 200

\* A mutant: only 200 counts as a deletion.
DeleteStatusOKOnly200(status) == status = 200

DeleteStatusOK(status) == status = 200 \/ status = 204

AppendRecords ==
  \E records \in Batches, resp \in WriteResponses :
    IF EmptyBatch(records) THEN Return("AppendRecords", records, FALSE, NotCalled, Ok(<<>>), <<>>)
    ELSE LET apiRecords == [i \in 1..Len(records) |-> AppendAPIRecord(records[i])]
             m == makeRequest("POST", TRUE, apiRecords, resp)
         IN  IF m.err # "nil" THEN Return("AppendRecords", records, TRUE, m, Fail(m.err, 0), <<>>)
             ELSE IF ~AppendStatusOK(m.resp.status)
             THEN Return("AppendRecords", records, TRUE, m, Fail("API error", m.resp.status), <<>>)
             ELSE Return("AppendRecords", records, TRUE, m, Ok(convertToSpecificTypes(records)), <<>>)

SetRecords ==
  \E records \in Batches, resp \in WriteResponses :
    IF EmptyBatch(records) THEN Return("SetRecords", records, FALSE, NotCalled, Ok(<<>>), <<>>)
    ELSE LET apiRecords == [i \in 1..Len(records) |-> SetAPIRecord(records[i])]
             m == makeRequest("PUT", TRUE, apiRecords, resp)
         IN  IF m.err # "nil" THEN Return("SetRecords", records, TRUE, m, Fail(m.err, 0), <<>>)
             ELSE IF ~SetStatusOK(m.resp.status)
             THEN Return("SetRecords", records, TRUE, m, Fail("API error", m.resp.status), <<>>)
             ELSE Return("SetRecords", records, TRUE, m, Ok(convertToSpecificTypes(records)), <<>>)

DeleteRecords ==
  \E records \in Batches, resp \in WriteResponses :
    IF EmptyBatch(records) THEN Return("DeleteRecords", records, FALSE, NotCalled, Ok(<<>>), <<>>)
    ELSE LET apiRecords == [i \in 1..Len(records) |-> DeleteAPIRecord(records[i])]
             m == makeRequest("DELETE", TRUE, apiRecords, resp)
         IN  IF m.err # "nil" THEN Return("DeleteRecords", records, TRUE, m, Fail(m.err, 0), <<>>)
             ELSE IF DeleteStatusOK(m.resp.status)
             THEN Return("DeleteRecords", records, TRUE, m, Ok(convertToSpecificTypes(records)), <<>>)
             ELSE Return("DeleteRecords", records, TRUE, m, Ok(<<>>), <<>>)

-----------------------------------------------------------------------------
(* The provider *)

NotRun == [done |-> FALSE, out |-> <<>>]

\* a Provider as its user fills it in: a token and an endpoint, either
\* perhaps empty, and no client
Init ==
  /\ APIToken \in {"", "token"}
  /\ Endpoint \in {"", "https://dns.example/api"}
  /\ client = FALSE
  /\ call = NoCall
  /\ wire = NoRequest
  /\ parses = <<>>
  /\ result = Ok(<<>>)
  /\ src = <<>>
  /\ dec = NotRun
  /\ ret = NotRun

Next == GetRecords \/ AppendRecords \/ SetRecords \/ DeleteRecords

Spec == Init /\ [][Next]_vars

-----------------------------------------------------------------------------
(* The conversions on their own: a list of records is decoded, as the API  *)
(* would hand it back, and re-typed, as after a write.                     *)

Alphabet == {"5", "m", " "}

\* values with a preference at and over the uint16 range, with leading
\* zeros, an underscore, a tab, a sign, and one that wraps to 5 in 32 bits
ExtraData ==
  { <<"1", "0", " ", "m", "x", ".", "e">>,
    <<"6", "5", "5", "3", "5", " ", "m">>,
    <<"6", "5", "5", "3", "6", " ", "m">>,
    <<"4", "2", "9", "4", "9", "6", "7", "3", "0", "1", " ", "m">>,
    <<"0", "0", "7", " ", "m">>,
    <<"1", "_", "0", " ", "m">>,
    <<"+", "5", " ", "m">>,
    <<"5", "\t", "m">>,
    IPv4Text, IPv6Text, IPv6LongText }

DataStrings == SeqsUpTo(Alphabet, MaxLen) \cup ExtraData

TypeTags == {"A", "AAAA", "a", "TXT", "txt", "CNAME", "MX", "mx", "NS", "SRV"}

Names == {"www", "@"}

\* whole seconds: a record that came over the wire has no fraction
TTLs == {0, 300 * Second}

GenericInputs ==
  {Generic(n, t, ty, d) : n \in Names, t \in TTLs, ty \in TypeTags, d \in DataStrings}

TypedInputs ==
  {Address(n, t, ip) : n \in Names, t \in TTLs, ip \in {IPv4Addr, IPv6Addr}}
    \cup {TXT(n, t, d) : n \in Names, t \in TTLs, d \in SeqsUpTo(Alphabet, 2)}
    \cup {CNAME(n, t, d) : n \in Names, t \in TTLs, d \in SeqsUpTo(Alphabet, 2)}
    \cup {NS(n, t, d) : n \in Names, t \in TTLs, d \in SeqsUpTo(Alphabet, 2)}
    \cup {MX(n, t, p, d) : n \in Names, t \in TTLs, p \in {0, 5, 10, MaxUint16},
                           d \in SeqsUpTo(Alphabet, 2)}

ListPool ==
  { Generic("bad", 0, "A", <<"x">>),
    Generic("six", 300 * Second, "a", IPv6Text),
    MX("@", 300 * Second, 20, <<"m">>) }

ConvInputs ==
  {<<r>> : r \in GenericInputs \cup TypedInputs} \cup SeqsUpTo(ListPool, MaxBatch)

\* the record as a GET response carries it: the fields of its projection
APIRecordOf(record) ==
  LET rr == RR(record)
  IN  APIRecord(rr.Name, rr.Type, rr.Data, Seconds(rr.TTL))

InitConv ==
  /\ APIToken = ""
  /\ Endpoint = "https://dns.example/api"
  /\ client = FALSE
  /\ call = NoCall
  /\ wire = NoRequest
  /\ parses = <<>>
  /\ result = Ok(<<>>)
  /\ src \in ConvInputs
  /\ dec = NotRun
  /\ ret = NotRun

DecodeRecords ==
  /\ ~dec.done
  /\ dec' = [done |-> TRUE,
             out |-> [i \in 1..Len(src) |-> convertAPIRecordToLibDNS(APIRecordOf(src[i]))]]
  /\ UNCHANGED <<APIToken, Endpoint, client, call, wire, parses, result, src, ret>>

RetypeRecords ==
  /\ ~ret.done
  /\ ret' = [done |-> TRUE, out |-> convertToSpecificTypes(src)]
  /\ UNCHANGED <<APIToken, Endpoint, client, call, wire, parses, result, src, dec>>

NextConv == DecodeRecords \/ RetypeRecords

SpecConv == InitConv /\ [][NextConv]_vars

-----------------------------------------------------------------------------
(* Properties of the operations (Spec) *)

WriteOps == {"AppendRecords", "SetRecords", "DeleteRecords"}

\* the last call handed a request to the HTTP client and got a response
Answered == wire # NoRequest /\ ~call.resp.failed

Max(a, b) == IF a >= b THEN a ELSE b

\* C1: a write operation called with an empty record list sends no HTTP
\* request and returns an empty list and no error, whatever the endpoint and
\* whether or not the client has been set by earlier calls.
C1_EmptyBatchShortCircuit ==
  (call.op \in WriteOps /\ call.records = <<>>) =>
    (wire = NoRequest /\ result.records = <<>> /\ result.err = "nil")

C1_Witness ==
  /\ call.op = "DeleteRecords" /\ call.records = <<>>
  /\ Endpoint = "" /\ ~client
  /\ wire = NoRequest /\ result.err = "nil"

\* C2: an answered DeleteRecords of a non-empty list returns the re-typed
\* input on status 200 or 204 and an empty list on every other status, and
\* never an error.
C2_DeleteBestEffort ==
  (call.op = "DeleteRecords" /\ call.records # <<>> /\ Answered) =>
    /\ result.err = "nil"
    /\ IF call.resp.status \in {200, 204}
       THEN result.records = convertToSpecificTypes(call.records)
       ELSE result.records = <<>>

C2_Witness ==
  /\ call.op = "DeleteRecords" /\ Len(call.records) = 2 /\ Answered
  /\ call.resp.status = 500
  /\ result = Ok(<<>>)

\* the statuses each operation takes for success
C3_Accepted(op) ==
  CASE op = "GetRecords" -> {200}
    [] op = "AppendRecords" -> {200, 201}
    [] op = "SetRecords" -> {200}

\* C3: an answered GetRecords succeeds only on 200, AppendRecords exactly on
\* 200 and 201, SetRecords exactly on 200; every other status gives an API
\* error that carries the status, and no records.
C3_StatusPolicy ==
  (call.op \in {"GetRecords", "AppendRecords", "SetRecords"} /\ Answered) =>
    IF call.resp.status \in C3_Accepted(call.op)
    THEN call.op = "GetRecords" \/ result.err = "nil"
    ELSE result.err = "API error" /\ result.status = call.resp.status /\ result.records = <<>>

C3_Witness ==
  /\ call.op = "SetRecords" /\ call.records # <<>> /\ Answered
  /\ call.resp.status = 201
  /\ result = Fail("API error", 201)

\* C4 as stated: the ttl on the wire is exactly max(ttl, 120 s) for
\* AppendRecords and SetRecords and exactly the record's ttl for
\* DeleteRecords, and a returned record has the caller's ttl.
C4_WireTTLExact ==
  (call.op \in WriteOps /\ wire # NoRequest) =>
    /\ Len(wire.records) = Len(call.records)
    /\ \A i \in 1..Len(call.records) :
         wire.records[i].ttl * Second =
           IF call.op = "DeleteRecords" THEN RR(call.records[i]).TTL
           ELSE Max(RR(call.records[i]).TTL, defaultMinTTL)
    /\ (result.err = "nil" /\ result.records # <<>>) =>
         \A i \in 1..Len(call.records) : result.records[i].TTL = call.records[i].TTL

\* w is d in whole seconds, the fraction of a second cut off toward zero
C4_WholeSeconds(w, d) ==
  IF d >= 0 THEN w * Second <= d /\ d < (w + 1) * Second
  ELSE (w - 1) * Second < d /\ d <= w * Second

\* C4, amended: the ttl on the wire is max(ttl, 120 s) in whole seconds for
\* AppendRecords and SetRecords, and the record's own ttl in whole seconds,
\* with no floor, for DeleteRecords (a fraction of a second is cut off
\* toward zero); a returned record has the caller's ttl unchanged.
C4_WireTTLWholeSeconds ==
  (call.op \in WriteOps /\ wire # NoRequest) =>
    /\ Len(wire.records) = Len(call.records)
    /\ \A i \in 1..Len(call.records) :
         C4_WholeSeconds(wire.records[i].ttl,
                         IF call.op = "DeleteRecords" THEN RR(call.records[i]).TTL
                         ELSE Max(RR(call.records[i]).TTL, defaultMinTTL))
    /\ (result.err = "nil" /\ result.records # <<>>) =>
         /\ Len(result.records) = Len(call.records)
         /\ \A i \in 1..Len(call.records) : result.records[i].TTL = call.records[i].TTL

C4_Witness ==
  /\ call.op = "AppendRecords" /\ Answered /\ result.err = "nil"
  /\ Len(call.records) = 2
  /\ call.records[1].TTL = 0 /\ wire.records[1].ttl = 120 /\ result.records[1].TTL = 0
  /\ call.records[2].TTL = 120 * Second + 500 /\ wire.records[2].ttl = 120
  /\ result.records[2].TTL = 120 * Second + 500

\* the record is tagged A or AAAA and its value is no IP address
C8_BadAddress(apiRecord) ==
  ToUpper(apiRecord.type) \in {"A", "AAAA"} /\ ~ParseAddr(apiRecord.value).ok

\* the variant the dispatch table gives a type tag
C8_Kind(type) ==
  LET up == ToUpper(type)
  IN  IF up \in {"A", "AAAA"} THEN "Address"
      ELSE IF up \in {"TXT", "CNAME", "MX", "NS"} THEN up
      ELSE "RR"

\* the last call is a GetRecords answered 200 with a body that parses
C8_Parsed ==
  /\ call.op = "GetRecords" /\ Answered /\ call.resp.status = 200
  /\ call.resp.body.shape \in {"object", "array"} /\ call.resp.body.typed

\* C8: decoding is all or nothing.  One A/AAAA record (in any case of the
\* tag) with an unparsable value, at any position, makes GetRecords return
\* an error and no record; otherwise it returns one typed record per record
\* of the response, in the response's order.
C8_DecodeAllOrNothing ==
  C8_Parsed =>
    LET recs == call.resp.body.records
    IN  IF \E i \in 1..Len(recs) : C8_BadAddress(recs[i])
        THEN result.err # "nil" /\ result.records = <<>>
        ELSE /\ result.err = "nil"
             /\ Len(result.records) = Len(recs)
             /\ \A i \in 1..Len(recs) :
                  /\ result.records[i].Name = recs[i].name
                  /\ result.records[i].TTL = recs[i].ttl * Second
                  /\ result.records[i].kind = C8_Kind(recs[i].type)

C8_Witness ==
  /\ C8_Parsed
  /\ Len(call.resp.body.records) = 2
  /\ ~C8_BadAddress(call.resp.body.records[1])
  /\ C8_BadAddress(call.resp.body.records[2])
  /\ result.err = "record conversion error" /\ result.records = <<>>

\* the same list in the other of the two shapes
C9_Other(body) ==
  ResponseBody(IF body.shape = "object" THEN "array" ELSE "object", body.records, body.typed)

\* C9: a 200 response body that wraps a list in {"records": [...]} and one
\* that is the list as a bare array decode to the same records in the same
\* order, or to the same error; the array parse is tried only after the
\* object parse has failed; a body that fails both gives a decoding error.
C9_DecodeFallback ==
  (call.op = "GetRecords" /\ Answered /\ call.resp.status = 200) =>
    LET body == call.resp.body
    IN  /\ body.shape \in {"object", "array"} => result = decodeBody(C9_Other(body)).res
        /\ \/ parses = <<"object">> /\ UnmarshalObject(body).ok
           \/ parses = <<"object", "array">> /\ ~UnmarshalObject(body).ok
        /\ (~UnmarshalObject(body).ok /\ ~UnmarshalArray(body).ok) =>
             result = Fail("JSON decoding error", 0)

C9_Witness ==
  /\ call.op = "GetRecords" /\ Answered /\ call.resp.status = 200
  /\ call.resp.body.shape = "array" /\ call.resp.body.typed
  /\ Len(call.resp.body.records) = 2
  /\ parses = <<"object", "array">>
  /\ result.err = "nil" /\ Len(result.records) = 2

-----------------------------------------------------------------------------
(* Properties of the conversions (SpecConv) *)

\* the token is an unsigned 16-bit integer, all of it
C7_IsUint16(tok) ==
  /\ tok # <<>>
  /\ \A i \in 1..Len(tok) : tok[i] \in Digit
  /\ DecValue(tok, 0) <= MaxUint16

\* the preference and the target the rule gives a value
C7_Parse(value) ==
  LET parts == Fields(value)
  IN  IF Len(parts) >= 2 /\ C7_IsUint16(parts[1])
      THEN [preference |-> DecValue(parts[1], 0), target |-> JoinSpace(Tail(parts))]
      ELSE [preference |-> 10, target |-> value]

C7_Follows(rec, value) ==
  /\ rec.kind = "MX"
  /\ rec.Preference = C7_Parse(value).preference
  /\ rec.Target = C7_Parse(value).target

\* C7: in decode and in retype an MX value is split on whitespace; with two
\* tokens or more and a first token that is, as a whole, an integer in
\* 0..65535, the preference is that integer and the target the other tokens
\* joined by single spaces; otherwise the preference is 10 and the target
\* the whole value.
C7_MXParsing ==
  \A i \in 1..Len(src) :
    ToUpper(RR(src[i]).Type) = "MX" =>
      /\ dec.done => C7_Follows(dec.out[i].rec, RR(src[i]).Data)
      /\ ret.done => C7_Follows(ret.out[i], RR(src[i]).Data)

\* two data strings of a type carry the same value: the same address, the
\* same preference and target, or the same text
SameValue(type, d1, d2) ==
  LET up == ToUpper(type)
  IN  IF up \in {"A", "AAAA"} /\ ParseAddr(d1).ok /\ ParseAddr(d2).ok
      THEN ParseAddr(d1).ip = ParseAddr(d2).ip
      ELSE IF up = "MX" THEN decodeMX(d1) = decodeMX(d2)
      ELSE d1 = d2

\* typed projects back to the Generic record g, up to the case of the tag
\* and the form of the data
ProjectsBackTo(typed, g) ==
  LET back == RR(typed)
  IN  /\ back.Name = g.Name
      /\ ToUpper(back.Type) = ToUpper(g.Type)
      /\ back.TTL = g.TTL
      /\ SameValue(g.Type, back.Data, g.Data)

\* C5: a Generic record that decode or retype converts to a typed record
\* projects back to its own name, type, ttl and data value, for every tag,
\* an A or AAAA tag over an address of the other family included.
C5_GenericRoundTrip ==
  \A i \in 1..Len(src) :
    src[i].kind = "RR" =>
      /\ (dec.done /\ dec.out[i].ok) => ProjectsBackTo(dec.out[i].rec, src[i])
      /\ ret.done => ProjectsBackTo(ret.out[i], src[i])

\* C6: a typed record of any variant, reduced to its Generic projection and
\* re-typed, comes back with its name, type and value: an MX with its
\* preference and its target, whatever the target.
C6_TypedRoundTrip ==
  ret.done =>
    \A i \in 1..Len(src) :
      IF src[i].kind = "RR" THEN ProjectsBackTo(ret.out[i], src[i])
      ELSE /\ ret.out[i].kind = src[i].kind
           /\ ret.out[i].Name = src[i].Name
           /\ CASE src[i].kind = "Address" -> ret.out[i].IP = src[i].IP
                [] src[i].kind = "TXT" -> ret.out[i].Text = src[i].Text
                [] src[i].kind = "MX" -> /\ ret.out[i].Preference = src[i].Preference
                                         /\ ret.out[i].Target = src[i].Target
                [] OTHER -> ret.out[i].Target = src[i].Target

\* C10: retype never fails and gives one record per input record, in order:
\* the record decode gives where decode succeeds, and the Generic projection
\* itself where decode fails, which is on an A or AAAA tag over a value
\* that is no IP address and nowhere else.
C10_RetypeFollowsDecode ==
  (dec.done /\ ret.done) =>
    /\ Len(ret.out) = Len(src)
    /\ \A i \in 1..Len(src) :
         IF dec.out[i].ok THEN ret.out[i] = dec.out[i].rec
         ELSE /\ ret.out[i] = RR(src[i])
              /\ ToUpper(RR(src[i]).Type) \in {"A", "AAAA"}
              /\ ~ParseAddr(RR(src[i]).Data).ok

C10_Witness ==
  /\ dec.done /\ ret.done /\ Len(src) = 2
  /\ ~dec.out[1].ok /\ ret.out[1] = src[1] /\ src[1].kind = "RR"
  /\ dec.out[2].ok /\ ret.out[2].kind = "Address" /\ ret.out[2] = dec.out[2].rec

====
